---- MODULE Spec2Model ----
(***************************************************************************)
(* grug_soa: structure-of-arrays tables with dense (Vec<T>) columns and    *)
(* copy-on-write Overlay<T> columns (src/src/lib.rs), used as in           *)
(* src/src/main.rs: a prototype table filled by load_prototype and a       *)
(* runtime table derived from it by new_from_prototypes.                   *)
(*                                                                         *)
(* Representation.                                                         *)
(*  - Vec<T> is a sequence; Rust index k is TLA+ index k+1.                *)
(*  - HashMap<usize,T> is a function whose DOMAIN is the key set.          *)
(*  - A u64 presence word is the set of its 1-bit positions (0..63), so    *)
(*    `w |= mask` is union and `w &= !mask` is set difference.             *)
(*  - A call that panics yields panic = TRUE together with the state the   *)
(*    call had built up to the panicking statement; a panic halts the      *)
(*    program (no action is enabled afterwards).                           *)
(*  - MySoA registers five dense fields (foo, bar, baz, num, name) that    *)
(*    all run the same Vec<T> code; two of them, bar (custom Default) and  *)
(*    num (derived Default), are carried here.                             *)
(***************************************************************************)
EXTENDS Integers, Sequences, FiniteSets, TLC

VARIABLES prototype_soa, runtime_soa, derived, col, window, last

vars == <<prototype_soa, runtime_soa, derived, col, window, last>>

(***************************************************************************)
(* Bounds of the exploration.                                              *)
(***************************************************************************)
MaxProto == 2
MaxInst == 3

(***************************************************************************)
(* Program constants.                                                      *)
(***************************************************************************)
WordBits == 64
BarDefault == 69
NumDefault == 0
StringDefault == ""

NoValue == "<none>"

(***************************************************************************)
(* serde_json values and the decoders serde_json::from_value::<T>.         *)
(***************************************************************************)
JNull == [kind |-> "null"]
JStr(s) == [kind |-> "string", s |-> s]
JNum(n) == [kind |-> "number", n |-> n]
JObj(f) == [kind |-> "object", fields |-> f]

I32Min == -2147483647 - 1
I32Max == 2147483647

from_value_String(json) ==
  IF json.kind = "string" THEN [ok |-> TRUE, val |-> json.s]
  ELSE [ok |-> FALSE, val |-> NoValue]

from_value_i32(json) ==
  IF json.kind = "number" /\ json.n >= I32Min /\ json.n <= I32Max
  THEN [ok |-> TRUE, val |-> json.n]
  ELSE [ok |-> FALSE, val |-> 0]

\* struct Bar { bar_field: i32 } with #[derive(Deserialize)]: a JSON object
\* whose bar_field decodes as i32.
from_value_Bar(json) ==
  IF json.kind = "object" /\ "bar_field" \in DOMAIN json.fields
  THEN from_value_i32(json.fields["bar_field"])
  ELSE [ok |-> FALSE, val |-> 0]

\* Faulty variant: the decode result is used without the fallback.
unwrap_unchecked(r, default) == r.val

unwrap_or_default(r, default) == IF r.ok THEN r.val ELSE default

(***************************************************************************)
(* Vec<T> as Storage<T>.                                                   *)
(***************************************************************************)
Vec_init_from_prototypes(self, prototypes) == self

Vec_push_json_Bar(self, json) ==
  Append(self, unwrap_or_default(from_value_Bar(json), BarDefault))

Vec_push_json_i32(self, json) ==
  Append(self, unwrap_or_default(from_value_i32(json), NumDefault))

Vec_push_from_prototype(self, source, proto_idx) ==
  IF proto_idx >= Len(source)
  THEN [c |-> self, panic |-> TRUE]
  ELSE [c |-> Append(self, source[proto_idx + 1]), panic |-> FALSE]

\* Faulty variant: Vec::remove, which shifts the tail down instead of
\* moving the last element.
Vec_remove_shifting(self, index) ==
  IF index >= Len(self)
  THEN [c |-> self, panic |-> TRUE]
  ELSE [c |-> [k \in 1..(Len(self) - 1) |->
                 IF k < index + 1 THEN self[k] ELSE self[k + 1]],
        panic |-> FALSE]

\* Vec::swap_remove: panics if index >= len, otherwise the last element
\* replaces the element at index and the vector shrinks by one.
Vec_swap_remove(self, index) ==
  IF index >= Len(self)
  THEN [c |-> self, panic |-> TRUE]
  ELSE [c |-> [k \in 1..(Len(self) - 1) |->
                 IF k = index + 1 THEN self[Len(self)] ELSE self[k]],
        panic |-> FALSE]

(***************************************************************************)
(* Overlay<T>.                                                             *)
(***************************************************************************)
EmptyMap == [k \in {} |-> NoValue]

map_insert(m, key, value) ==
  [k \in (DOMAIN m) \cup {key} |-> IF k = key THEN value ELSE m[k]]

map_remove(m, key) == [k \in (DOMAIN m) \ {key} |-> m[k]]

Overlay_default ==
  [dense_data |-> << >>, sparse_data |-> EmptyMap, presence |-> << >>,
   instance_len |-> 0]

word_bit(instance_id) ==
  [word |-> instance_id \div WordBits, bit |-> instance_id % WordBits]

ensure_presence_capacity(self, instance_id) ==
  LET word == word_bit(instance_id).word IN
  IF Len(self.presence) <= word
  THEN [self EXCEPT !.presence =
          @ \o [k \in 1..(word + 1 - Len(self.presence)) |-> {}]]
  ELSE self

\* Faulty variant: a default template is pushed along with the instance
\* slot.
push_instance_pushes_template(self) ==
  LET id == self.instance_len IN
  ensure_presence_capacity(
    [self EXCEPT !.instance_len = @ + 1,
                 !.dense_data = Append(@, StringDefault)], id)

push_instance(self) ==
  LET id == self.instance_len IN
  ensure_presence_capacity([self EXCEPT !.instance_len = @ + 1], id)

has_override(self, instance_id) ==
  IF instance_id >= self.instance_len THEN FALSE
  ELSE LET wb == word_bit(instance_id) IN
       /\ wb.word < Len(self.presence)
       /\ wb.bit \in self.presence[wb.word + 1]

\* Faulty variant: the sparse_data entry is removed but the bit stays set.
clear_override_keeps_bit(self, instance_id) ==
  IF instance_id >= self.instance_len THEN self
  ELSE [self EXCEPT !.sparse_data = map_remove(@, instance_id)]

\* Faulty variant: the bit is cleared but the sparse_data entry stays.
clear_override_keeps_entry(self, instance_id) ==
  IF instance_id >= self.instance_len THEN self
  ELSE LET wb == word_bit(instance_id) IN
       IF wb.word < Len(self.presence)
       THEN [self EXCEPT !.presence[wb.word + 1] = @ \ {wb.bit}]
       ELSE self

clear_override(self, instance_id) ==
  IF instance_id >= self.instance_len THEN self
  ELSE LET wb == word_bit(instance_id)
           s1 == IF wb.word < Len(self.presence)
                 THEN [self EXCEPT !.presence[wb.word + 1] = @ \ {wb.bit}]
                 ELSE self
       IN [s1 EXCEPT !.sparse_data = map_remove(@, instance_id)]

\* Faulty variant: the fallback indexes the templates by instance id.
get_by_instance_id(self, instance_id, prototype_id) ==
  IF has_override(self, instance_id)
  THEN IF instance_id \in DOMAIN self.sparse_data
       THEN [ret |-> self.sparse_data[instance_id], panic |-> FALSE]
       ELSE [ret |-> NoValue, panic |-> TRUE]
  ELSE IF instance_id < Len(self.dense_data)
       THEN [ret |-> self.dense_data[instance_id + 1], panic |-> FALSE]
       ELSE [ret |-> NoValue, panic |-> TRUE]

get(self, instance_id, prototype_id) ==
  IF has_override(self, instance_id)
  THEN IF instance_id \in DOMAIN self.sparse_data
       THEN [ret |-> self.sparse_data[instance_id], panic |-> FALSE]
       ELSE [ret |-> NoValue, panic |-> TRUE]
  ELSE IF prototype_id < Len(self.dense_data)
       THEN [ret |-> self.dense_data[prototype_id + 1], panic |-> FALSE]
       ELSE [ret |-> NoValue, panic |-> TRUE]

\* The bit is set by `self.presence[word] |= mask` after the capacity has
\* been ensured.
set_presence_bit(self, instance_id) ==
  LET wb == word_bit(instance_id)
      s1 == ensure_presence_capacity(self, instance_id)
  IN [s1 EXCEPT !.presence[wb.word + 1] = @ \cup {wb.bit}]

\* A `&mut T` into the overlay: the place it points at.
SparseRef(key) == [into |-> "sparse_data", key |-> key]
DenseRef(index) == [into |-> "dense_data", key |-> index]

\* Faulty variant: no copy-on-write, the reference points into the shared
\* template.
get_mut_no_copy(self, instance_id, prototype_id) ==
  IF instance_id >= self.instance_len \/ prototype_id >= Len(self.dense_data)
  THEN [o |-> self, panic |-> TRUE, ref |-> SparseRef(instance_id)]
  ELSE [o |-> self, panic |-> FALSE, ref |-> DenseRef(prototype_id)]

\* Faulty variant: the template is cloned into the override on every call,
\* whether or not the instance already has one.
get_mut_reclones(self, instance_id, prototype_id) ==
  IF instance_id >= self.instance_len \/ prototype_id >= Len(self.dense_data)
  THEN [o |-> self, panic |-> TRUE, ref |-> SparseRef(instance_id)]
  ELSE LET s1 == [self EXCEPT !.sparse_data =
                    map_insert(@, instance_id,
                               self.dense_data[prototype_id + 1])]
       IN [o |-> set_presence_bit(s1, instance_id), panic |-> FALSE,
           ref |-> SparseRef(instance_id)]

\* get_mut returns the overlay after the call and the reference it hands out.
get_mut(self, instance_id, prototype_id) ==
  IF instance_id >= self.instance_len
  THEN [o |-> self, panic |-> TRUE, ref |-> SparseRef(instance_id)]
  ELSE IF ~has_override(self, instance_id)
       THEN IF prototype_id >= Len(self.dense_data)
            THEN [o |-> self, panic |-> TRUE, ref |-> SparseRef(instance_id)]
            ELSE LET base == self.dense_data[prototype_id + 1]
                     s1 == [self EXCEPT !.sparse_data =
                              map_insert(@, instance_id, base)]
                 IN [o |-> set_presence_bit(s1, instance_id), panic |-> FALSE,
                     ref |-> SparseRef(instance_id)]
       ELSE IF instance_id \in DOMAIN self.sparse_data
            THEN [o |-> self, panic |-> FALSE, ref |-> SparseRef(instance_id)]
            ELSE [o |-> self, panic |-> TRUE, ref |-> SparseRef(instance_id)]

\* The caller's store `*r = value` through a reference get_mut returned.
store_through(self, ref, value) ==
  IF ref.into = "sparse_data"
  THEN [self EXCEPT !.sparse_data = map_insert(@, ref.key, value)]
  ELSE [self EXCEPT !.dense_data[ref.key + 1] = value]

\* Faulty variant: the value is stored only when the instance has no
\* override yet.
set_if_absent(self, instance_id, value) ==
  IF instance_id >= self.instance_len
  THEN [o |-> self, panic |-> TRUE]
  ELSE IF has_override(self, instance_id)
       THEN [o |-> self, panic |-> FALSE]
       ELSE LET s1 == [self EXCEPT !.sparse_data =
                         map_insert(@, instance_id, value)]
            IN [o |-> set_presence_bit(s1, instance_id), panic |-> FALSE]

\* Faulty variant: the bounds check is missing.
set_unchecked(self, instance_id, value) ==
  LET s1 == [self EXCEPT !.sparse_data = map_insert(@, instance_id, value)]
  IN [o |-> set_presence_bit(s1, instance_id), panic |-> FALSE]

set(self, instance_id, value) ==
  IF instance_id >= self.instance_len
  THEN [o |-> self, panic |-> TRUE]
  ELSE LET s1 == [self EXCEPT !.sparse_data =
                    map_insert(@, instance_id, value)]
       IN [o |-> set_presence_bit(s1, instance_id), panic |-> FALSE]

\* Faulty variant: the last instance's override is copied into the hole but
\* its own entry and bit are left behind.
swap_remove_instance_leaves_last(self, index) ==
  IF index >= self.instance_len
  THEN [o |-> self, panic |-> TRUE]
  ELSE LET lastId == self.instance_len - 1
           s1 == clear_override(self, index)
           s2 == IF index # lastId /\ has_override(s1, lastId)
                    /\ lastId \in DOMAIN s1.sparse_data
                 THEN set(s1, index, s1.sparse_data[lastId]).o
                 ELSE s1
       IN [o |-> [s2 EXCEPT !.instance_len = @ - 1], panic |-> FALSE]

\* Faulty variant: the last instance's override is dropped instead of being
\* moved into the hole.
swap_remove_instance_drops_last(self, index) ==
  IF index >= self.instance_len
  THEN [o |-> self, panic |-> TRUE]
  ELSE LET s1 == clear_override(clear_override(self, index),
                                self.instance_len - 1)
       IN [o |-> [s1 EXCEPT !.instance_len = @ - 1], panic |-> FALSE]

swap_remove_instance(self, index) ==
  IF index >= self.instance_len
  THEN [o |-> self, panic |-> TRUE]
  ELSE
    LET lastId == self.instance_len - 1
        s1 == clear_override(self, index)
    IN
    IF index # lastId
    THEN
      LET last_has == has_override(s1, lastId) IN
      IF last_has /\ lastId \notin DOMAIN s1.sparse_data
      THEN [o |-> s1, panic |-> TRUE]
      ELSE
        LET s2 == IF last_has
                  THEN [s1 EXCEPT !.sparse_data =
                          map_insert(map_remove(@, lastId), index,
                                     s1.sparse_data[lastId])]
                  ELSE s1
            iw == word_bit(index)
            lw == word_bit(lastId)
            s3 == ensure_presence_capacity(
                    ensure_presence_capacity(s2, index), lastId)
            s4 == IF last_has
                  THEN [s3 EXCEPT !.presence[iw.word + 1] = @ \cup {iw.bit}]
                  ELSE [s3 EXCEPT !.presence[iw.word + 1] = @ \ {iw.bit}]
            s5 == [s4 EXCEPT !.presence[lw.word + 1] = @ \ {lw.bit}]
        IN [o |-> [s5 EXCEPT !.instance_len = @ - 1], panic |-> FALSE]
    ELSE
      LET lw == word_bit(lastId)
          s2 == IF lw.word < Len(s1.presence)
                THEN [s1 EXCEPT !.presence[lw.word + 1] = @ \ {lw.bit}]
                ELSE s1
      IN [o |-> [s2 EXCEPT !.instance_len = @ - 1], panic |-> FALSE]

(***************************************************************************)
(* Overlay<T> as Storage<T>.                                               *)
(***************************************************************************)
\* Faulty variant: the per-instance state is cleared but the templates are
\* not copied.
init_from_prototypes_clears_only(self, prototypes) ==
  [self EXCEPT !.sparse_data = EmptyMap,
               !.presence = << >>,
               !.instance_len = 0]

\* Faulty variant: the templates are copied but the instances are kept.
init_from_prototypes_keeps_instances(self, prototypes) ==
  [self EXCEPT !.dense_data = prototypes.dense_data]

Overlay_init_from_prototypes(self, prototypes) ==
  [self EXCEPT !.dense_data = prototypes.dense_data,
               !.sparse_data = EmptyMap,
               !.presence = << >>,
               !.instance_len = 0]

Overlay_push_json(self, json) ==
  [self EXCEPT !.dense_data =
     Append(@, unwrap_or_default(from_value_String(json), StringDefault))]

\* Faulty variant: the templates are taken over from the source column again
\* at every spawn.
Overlay_push_from_prototype_reseeds(self, source, proto_idx) ==
  [c |-> [push_instance(self) EXCEPT !.dense_data = source.dense_data],
   panic |-> FALSE]

\* Faulty variant: the overlay column is not extended on spawn.
Overlay_push_from_prototype_noop(self, source, proto_idx) ==
  [c |-> self, panic |-> FALSE]

\* Faulty variant: the template is copied into the new instance's override
\* at spawn time.
Overlay_push_from_prototype_eager(self, source, proto_idx) ==
  [c |-> set(push_instance(self), self.instance_len,
             source.dense_data[proto_idx + 1]).o,
   panic |-> FALSE]

Overlay_push_from_prototype(self, source, proto_idx) ==
  [c |-> push_instance(self), panic |-> FALSE]

Overlay_swap_remove(self, index) ==
  LET r == swap_remove_instance(self, index) IN [c |-> r.o, panic |-> r.panic]

(***************************************************************************)
(* The table type MySoA and the operations impl_load_prototype! generates  *)
(* for it.  Registered field order: bar, num, really_long_string.          *)
(***************************************************************************)
MySoA_default ==
  [prototype_id |-> << >>, bar |-> << >>, num |-> << >>,
   really_long_string |-> Overlay_default]

\* obj.get(stringify!($field)), with &null standing in for a missing key.
field_or_null(obj, name) ==
  IF name \in DOMAIN obj.fields THEN obj.fields[name] ELSE JNull

\* Faulty variant: an id carried by the input is honoured.
next_prototype_id_from_input(self, prototype) ==
  IF "prototype_id" \in DOMAIN prototype.fields
     /\ prototype.fields["prototype_id"].kind = "number"
  THEN prototype.fields["prototype_id"].n
  ELSE Len(self.prototype_id)

\* `let next_id = self.prototype_id.len();`
next_prototype_id(self, prototype) == Len(self.prototype_id)

load_prototype(self, prototype) ==
  IF prototype.kind # "object"
  THEN [t |-> self, panic |-> TRUE]
  ELSE
    LET t1 == [self EXCEPT !.bar =
                 Vec_push_json_Bar(@, field_or_null(prototype, "bar"))]
        t2 == [t1 EXCEPT !.num =
                 Vec_push_json_i32(@, field_or_null(prototype, "num"))]
        t3 == [t2 EXCEPT !.really_long_string =
                 Overlay_push_json(@, field_or_null(prototype,
                                                    "really_long_string"))]
        next_id == next_prototype_id(t3, prototype)
    IN [t |-> [t3 EXCEPT !.prototype_id = Append(@, next_id)],
        panic |-> FALSE]

new_from_prototypes(prototypes) ==
  LET out == MySoA_default
      o1 == [out EXCEPT !.bar = Vec_init_from_prototypes(@, prototypes.bar)]
      o2 == [o1 EXCEPT !.num = Vec_init_from_prototypes(@, prototypes.num)]
  IN [o2 EXCEPT !.really_long_string =
        Overlay_init_from_prototypes(@, prototypes.really_long_string)]

spawn_entity(self, prototype, prototype_index) ==
  IF prototype_index >= Len(prototype.prototype_id)
  THEN [t |-> self, panic |-> TRUE]
  ELSE
    LET t0 == [self EXCEPT !.prototype_id =
                 Append(@, prototype.prototype_id[prototype_index + 1])]
        r1 == Vec_push_from_prototype(t0.bar, prototype.bar, prototype_index)
        t1 == [t0 EXCEPT !.bar = r1.c]
        r2 == Vec_push_from_prototype(t1.num, prototype.num, prototype_index)
        t2 == [t1 EXCEPT !.num = r2.c]
        r3 == Overlay_push_from_prototype(t2.really_long_string,
                prototype.really_long_string, prototype_index)
        t3 == [t2 EXCEPT !.really_long_string = r3.c]
    IN IF r1.panic THEN [t |-> t0, panic |-> TRUE]
       ELSE IF r2.panic THEN [t |-> t1, panic |-> TRUE]
       ELSE [t |-> t3, panic |-> r3.panic]

swap_remove(self, index) ==
  LET r0 == Vec_swap_remove(self.prototype_id, index)
      t0 == [self EXCEPT !.prototype_id = r0.c]
      r1 == Vec_swap_remove(t0.bar, index)
      t1 == [t0 EXCEPT !.bar = r1.c]
      r2 == Vec_swap_remove(t1.num, index)
      t2 == [t1 EXCEPT !.num = r2.c]
      r3 == Overlay_swap_remove(t2.really_long_string, index)
      t3 == [t2 EXCEPT !.really_long_string = r3.c]
  IN IF r0.panic THEN [t |-> self, panic |-> TRUE]
     ELSE IF r1.panic THEN [t |-> t0, panic |-> TRUE]
     ELSE IF r2.panic THEN [t |-> t1, panic |-> TRUE]
     ELSE [t |-> t3, panic |-> r3.panic]

(***************************************************************************)
(* Inputs.                                                                 *)
(***************************************************************************)
\* A record with dense fields missing (main.rs:57-64).
ProtoA == JObj([num |-> JNum(1337), really_long_string |-> JStr("x")])
\* An id-like key, a good bar, and two values of the wrong JSON type.
ProtoB == JObj([prototype_id |-> JNum(7), bar |-> JObj([bar_field |-> JNum(420)]),
                num |-> JStr("oops"), really_long_string |-> JNum(5)])
\* An explicit null and no overlay key.
ProtoC == JObj([bar |-> JObj([bar_field |-> JNum(420)]), num |-> JNull])
\* An id-like key and a bar whose inner field is malformed.
ProtoD == JObj([prototype_id |-> JNum(7), bar |-> JObj([bar_field |-> JStr("bad")]),
                num |-> JNum(1337), really_long_string |-> JStr("x")])
\* Not an object at all.
ProtoBad == JStr("not an object")

ProtoInputs == <<ProtoA, ProtoB, ProtoC, ProtoD, ProtoBad>>

IngestInputs == {JStr("x"), JNull, JNum(5)}

NewVals == {"y"}

\* Template sequences a column is seeded from.
SeedSources == {<< >>, <<"x">>, <<StringDefault, "x">>}

\* n calls of push_instance, one after the other: each call's result is
\* looked at before the next call is made (instance_len only grows).
RECURSIVE push_instances(_, _)
push_instances(self, n) ==
  IF n = 0 THEN self
  ELSE LET next == push_instance(self) IN
       IF next.instance_len = 0 THEN self ELSE push_instances(next, n - 1)

\* Index arguments: every index in range and the first one out of range.
Indices(n) == 0..n

\* The column-level actions start from a column of `window` instances, 0 or
\* just below the first presence-word boundary, and use the instance ids
\* from `window` up to the first one out of range.
Windows == {0, WordBits - 2}
IdWindow == window..col.instance_len

(***************************************************************************)
(* State.                                                                  *)
(***************************************************************************)
\* The call made last: its name, its first index argument, what it returned
\* (for get) and whether it panicked.
NoOp == [op |-> "init", i |-> 0, ret |-> NoValue, panic |-> FALSE]

Did(op, i, ret, panic) == [op |-> op, i |-> i, ret |-> ret, panic |-> panic]

Running == ~last.panic

TableInit ==
  /\ prototype_soa = MySoA_default
  /\ runtime_soa = MySoA_default
  /\ derived = FALSE

Init ==
  /\ TableInit
  /\ col = Overlay_default
  /\ window = 0
  /\ last = NoOp

InitOverlay ==
  /\ TableInit
  /\ window \in Windows
  /\ col = push_instances(Overlay_default, window)
  /\ last = NoOp

(***************************************************************************)
(* Table-level actions, in the two phases of main.rs: prototypes are       *)
(* loaded, then the runtime table is derived and used.                     *)
(***************************************************************************)
ProtoIndices == Indices(Len(prototype_soa.prototype_id))
InstIndices == Indices(Len(runtime_soa.prototype_id))
TemplateIndices == Indices(Len(runtime_soa.really_long_string.dense_data))

\* The prototype ids passed with instance i to get_mut: the instance's own, as
\* at main.rs:121, and the first one past the templates.
WritePrototypes(i) ==
  {IF i < Len(runtime_soa.prototype_id)
     THEN runtime_soa.prototype_id[i + 1] ELSE 0,
   Len(runtime_soa.really_long_string.dense_data)}

\* load_prototype on the prototype table; n selects the input.
LoadPrototype(n) ==
  /\ Running
  /\ ~derived
  /\ Len(prototype_soa.prototype_id) < MaxProto
  /\ LET r == load_prototype(prototype_soa, ProtoInputs[n]) IN
       /\ prototype_soa' = r.t
       /\ last' = Did("load_prototype", n, NoValue, r.panic)
  /\ UNCHANGED <<runtime_soa, derived, col, window>>

NewFromPrototypes ==
  /\ Running
  /\ runtime_soa' = new_from_prototypes(prototype_soa)
  /\ derived' = TRUE
  /\ last' = Did("new_from_prototypes", 0, NoValue, FALSE)
  /\ UNCHANGED <<prototype_soa, col, window>>

SpawnEntity(p) ==
  /\ Running
  /\ derived
  /\ Len(runtime_soa.prototype_id) < MaxInst
  /\ LET r == spawn_entity(runtime_soa, prototype_soa, p) IN
       /\ runtime_soa' = r.t
       /\ last' = Did("spawn_entity", p, NoValue, r.panic)
  /\ UNCHANGED <<prototype_soa, derived, col, window>>

SwapRemove(k) ==
  /\ Running
  /\ derived
  /\ LET r == swap_remove(runtime_soa, k) IN
       /\ runtime_soa' = r.t
       /\ last' = Did("swap_remove", k, NoValue, r.panic)
  /\ UNCHANGED <<prototype_soa, derived, col, window>>

\* swap_remove is generated for the table type, so it can be called on the
\* prototype table as well.
ProtoSwapRemove(k) ==
  /\ Running
  /\ LET r == swap_remove(prototype_soa, k) IN
       /\ prototype_soa' = r.t
       /\ last' = Did("proto_swap_remove", k, NoValue, r.panic)
  /\ UNCHANGED <<runtime_soa, derived, col, window>>

\* get_mut on the runtime table's overlay column, then a store of v through
\* the reference it returned.
Write(i, p, v) ==
  /\ Running
  /\ derived
  /\ LET r == get_mut(runtime_soa.really_long_string, i, p)
         o == IF r.panic THEN r.o ELSE store_through(r.o, r.ref, v)
     IN
       /\ runtime_soa' = [runtime_soa EXCEPT !.really_long_string = o]
       /\ last' = Did("get_mut", i, NoValue, r.panic)
  /\ UNCHANGED <<prototype_soa, derived, col, window>>

Assign(i, v) ==
  /\ Running
  /\ derived
  /\ LET r == set(runtime_soa.really_long_string, i, v) IN
       /\ runtime_soa' = [runtime_soa EXCEPT !.really_long_string = r.o]
       /\ last' = Did("set", i, NoValue, r.panic)
  /\ UNCHANGED <<prototype_soa, derived, col, window>>

ClearOverride(i) ==
  /\ Running
  /\ derived
  /\ runtime_soa' = [runtime_soa EXCEPT !.really_long_string =
                       clear_override(@, i)]
  /\ last' = Did("clear_override", i, NoValue, FALSE)
  /\ UNCHANGED <<prototype_soa, derived, col, window>>

\* The read of main.rs:121: get(i, prototype_id[i]).
Read(i) ==
  /\ Running
  /\ derived
  /\ i < Len(runtime_soa.prototype_id)
  /\ LET r == get(runtime_soa.really_long_string, i,
                  runtime_soa.prototype_id[i + 1]) IN
       last' = Did("get", i, r.ret, r.panic)
  /\ UNCHANGED <<prototype_soa, runtime_soa, derived, col, window>>

Next ==
  \/ \E n \in DOMAIN ProtoInputs : LoadPrototype(n)
  \/ NewFromPrototypes
  \/ \E p \in ProtoIndices : SpawnEntity(p)
  \/ \E k \in InstIndices : SwapRemove(k)
  \/ \E k \in ProtoIndices : ProtoSwapRemove(k)
  \/ \E i \in InstIndices : \E p \in WritePrototypes(i), v \in NewVals :
       Write(i, p, v)
  \/ \E i \in InstIndices, v \in NewVals : Assign(i, v)
  \/ \E i \in InstIndices : ClearOverride(i)
  \/ \E i \in InstIndices : Read(i)

Spec == Init /\ [][Next]_vars

(***************************************************************************)
(* The same tables with load_prototype called on the prototype table after *)
(* the runtime table has been derived from it: the runs start where        *)
(* main.rs:104 leaves the tables, with one or two prototypes loaded, and    *)
(* the prototype table keeps growing.                                      *)
(***************************************************************************)
LoadedFirst == {<<ProtoA>>, <<ProtoA, ProtoB>>}

RECURSIVE load_prototypes(_, _)
load_prototypes(self, inputs) ==
  IF inputs = << >> THEN self
  ELSE load_prototypes(load_prototype(self, Head(inputs)).t, Tail(inputs))

InitLate ==
  /\ \E inputs \in LoadedFirst :
       prototype_soa = load_prototypes(MySoA_default, inputs)
  /\ runtime_soa = new_from_prototypes(prototype_soa)
  /\ derived = TRUE
  /\ col = Overlay_default
  /\ window = 0
  /\ last = Did("new_from_prototypes", 0, NoValue, FALSE)

LoadPrototypeLate(n) ==
  /\ Running
  /\ derived
  /\ Len(prototype_soa.prototype_id) < MaxProto
  /\ LET r == load_prototype(prototype_soa, ProtoInputs[n]) IN
       /\ prototype_soa' = r.t
       /\ last' = Did("load_prototype", n, NoValue, r.panic)
  /\ UNCHANGED <<runtime_soa, derived, col, window>>

NextLate ==
  \/ \E n \in DOMAIN ProtoInputs : LoadPrototypeLate(n)
  \/ \E p \in ProtoIndices : SpawnEntity(p)
  \/ \E k \in InstIndices : SwapRemove(k)
  \/ \E i \in InstIndices : \E p \in WritePrototypes(i), v \in NewVals :
       Write(i, p, v)
  \/ \E i \in InstIndices, v \in NewVals : Assign(i, v)
  \/ \E i \in InstIndices : ClearOverride(i)

SpecLate == InitLate /\ [][NextLate]_vars

(***************************************************************************)
(* Column-level actions: one Overlay<String> driven directly through its   *)
(* public methods and its Storage impl.                                    *)
(***************************************************************************)
ColTemplateIndices == Indices(Len(col.dense_data))

\* The prototype ids passed to a get_mut that is followed by a store: the
\* first template and the first id past the templates.
ColWritePrototypes == {0, Len(col.dense_data)}

Seed(templates) ==
  /\ Running
  /\ col' = Overlay_init_from_prototypes(col,
              [Overlay_default EXCEPT !.dense_data = templates])
  /\ window' = 0
  /\ last' = Did("init_from_prototypes", 0, NoValue, FALSE)
  /\ UNCHANGED <<prototype_soa, runtime_soa, derived>>

Ingest(json) ==
  /\ Running
  /\ Len(col.dense_data) < MaxProto
  /\ col' = Overlay_push_json(col, json)
  /\ last' = Did("push_json", 0, NoValue, FALSE)
  /\ UNCHANGED <<prototype_soa, runtime_soa, derived, window>>

PushInstance ==
  /\ Running
  /\ col.instance_len < window + MaxInst
  /\ col' = push_instance(col)
  /\ last' = Did("push_instance", col.instance_len, NoValue, FALSE)
  /\ UNCHANGED <<prototype_soa, runtime_soa, derived, window>>

\* get_mut alone.
ColGetMut(i, p) ==
  /\ Running
  /\ LET r == get_mut(col, i, p) IN
       /\ col' = r.o
       /\ last' = Did("get_mut", i, NoValue, r.panic)
  /\ UNCHANGED <<prototype_soa, runtime_soa, derived, window>>

\* get_mut, then a store of v through the reference it returned.
ColWrite(i, p, v) ==
  /\ Running
  /\ LET r == get_mut(col, i, p) IN
       /\ col' = IF r.panic THEN r.o ELSE store_through(r.o, r.ref, v)
       /\ last' = Did("get_mut_store", i, NoValue, r.panic)
  /\ UNCHANGED <<prototype_soa, runtime_soa, derived, window>>

ColAssign(i, v) ==
  /\ Running
  /\ LET r == set(col, i, v) IN
       /\ col' = r.o
       /\ last' = Did("set", i, NoValue, r.panic)
  /\ UNCHANGED <<prototype_soa, runtime_soa, derived, window>>

ColClearOverride(i) ==
  /\ Running
  /\ col' = clear_override(col, i)
  /\ last' = Did("clear_override", i, NoValue, FALSE)
  /\ UNCHANGED <<prototype_soa, runtime_soa, derived, window>>

ColRemove(index) ==
  /\ Running
  /\ LET r == swap_remove_instance(col, index) IN
       /\ col' = r.o
       /\ last' = Did("swap_remove_instance", index, NoValue, r.panic)
  /\ UNCHANGED <<prototype_soa, runtime_soa, derived, window>>

ColRead(i, p) ==
  /\ Running
  /\ LET r == get(col, i, p) IN
       last' = Did("get", i, r.ret, r.panic)
  /\ UNCHANGED <<prototype_soa, runtime_soa, derived, col, window>>

NextOverlay ==
  \/ \E t \in SeedSources : Seed(t)
  \/ \E json \in IngestInputs : Ingest(json)
  \/ PushInstance
  \/ \E i \in IdWindow, p \in ColTemplateIndices : ColGetMut(i, p)
  \/ \E i \in IdWindow, p \in ColWritePrototypes, v \in NewVals :
       ColWrite(i, p, v)
  \/ \E i \in IdWindow, v \in NewVals : ColAssign(i, v)
  \/ \E i \in IdWindow : ColClearOverride(i)
  \/ \E i \in IdWindow : ColRemove(i)
  \/ \E i \in IdWindow, p \in ColTemplateIndices : ColRead(i, p)

SpecOverlay == InitOverlay /\ [][NextOverlay]_vars

(***************************************************************************)
(* Properties.                                                             *)
(***************************************************************************)
RT == runtime_soa.really_long_string
PT == prototype_soa.really_long_string

\* Bit `id` of the presence index, read directly from the words.
PresenceBit(self, id) ==
  /\ (id \div 64) + 1 \in DOMAIN self.presence
  /\ (id % 64) \in self.presence[(id \div 64) + 1]

\* Everything a caller can observe of record j of a table.
Record(t, j) ==
  [prototype_id |-> t.prototype_id[j + 1],
   bar |-> t.bar[j + 1],
   num |-> t.num[j + 1],
   overridden |-> has_override(t.really_long_string, j),
   value |-> get(t.really_long_string, j, t.prototype_id[j + 1])]

TablesUnchanged ==
  /\ runtime_soa' = runtime_soa
  /\ prototype_soa' = prototype_soa

\* C1 (SpecOverlay): overlay consistency.  In every state reached by
\* init_from_prototypes, push_json, push_instance, get_mut, set,
\* clear_override and swap_remove_instance on an Overlay column, for every
\* instance id i < instance_len the presence bit i is 1 iff sparse_data has
\* key i.
C1_OverlayConsistency ==
  \A i \in 0..(col.instance_len - 1) :
    PresenceBit(col, i) <=> (i \in DOMAIN col.sparse_data)

\* A swap-remove has moved the last instance's override across a presence
\* word boundary, next to instances that have no override.
C1_Witness ==
  /\ last.op = "swap_remove_instance" /\ ~last.panic
  /\ last.i < col.instance_len
  /\ last.i \in DOMAIN col.sparse_data
  /\ (last.i \div 64) # (col.instance_len \div 64)
  /\ \E j \in 0..(col.instance_len - 1) : j \notin DOMAIN col.sparse_data

\* C2 (Spec): swap-remove alignment.  After a successful swap_remove(k) on
\* the runtime table every column is one shorter, the records at indices
\* other than k and the old last index are unchanged, and if k was not the
\* last index the record that was last is now at k with its prototype_id,
\* dense values, override state and overlay read value.
C2_SwapRemoveAlignment ==
  [][(last'.op = "swap_remove" /\ ~last'.panic) =>
       LET k == last'.i
           n == Len(runtime_soa.prototype_id)
       IN /\ Len(runtime_soa'.prototype_id) = n - 1
          /\ Len(runtime_soa'.bar) = Len(runtime_soa.bar) - 1
          /\ Len(runtime_soa'.num) = Len(runtime_soa.num) - 1
          /\ runtime_soa'.really_long_string.instance_len =
               runtime_soa.really_long_string.instance_len - 1
          /\ \A j \in 0..(n - 2) :
               j # k => Record(runtime_soa', j) = Record(runtime_soa, j)
          /\ k # n - 1 => Record(runtime_soa', k) = Record(runtime_soa, n - 1)
    ]_vars

\* The removed index was not the last one, the record moved into it carries
\* an override, and a record without one sits beside it.
C2_Witness ==
  /\ last.op = "swap_remove" /\ ~last.panic
  /\ Len(runtime_soa.prototype_id) >= 2
  /\ last.i < Len(runtime_soa.prototype_id)
  /\ has_override(RT, last.i)
  /\ \E j \in 0..(RT.instance_len - 1) : j # last.i /\ ~has_override(RT, j)

\* C3 (Spec): copy-on-write isolation.  After get_mut(i, p) on the runtime
\* table's overlay column and a store through the returned reference, every
\* other instance j keeps its override state and reads, by
\* get(j, prototype_id[j]), what it read before, the column's templates are
\* unchanged, and the prototype table is unchanged.
C3_CopyOnWriteIsolation ==
  [][(last'.op = "get_mut" /\ ~last'.panic) =>
         LET i == last'.i
             old == runtime_soa.really_long_string
             new == runtime_soa'.really_long_string
         IN /\ new.dense_data = old.dense_data
            /\ prototype_soa' = prototype_soa
            /\ \A j \in 0..(old.instance_len - 1) :
                 j # i => /\ has_override(new, j) = has_override(old, j)
                          /\ get(new, j, runtime_soa.prototype_id[j + 1])
                               = get(old, j, runtime_soa.prototype_id[j + 1])
    ]_vars

\* Instance i was written through get_mut while instance j, spawned from the
\* same prototype, still reads the template.
C3_Witness ==
  /\ last.op = "get_mut" /\ ~last.panic
  /\ last.i < Len(runtime_soa.prototype_id)
  /\ get(RT, last.i, runtime_soa.prototype_id[last.i + 1]).ret = "y"
  /\ \E j \in 0..(RT.instance_len - 1) :
       /\ j # last.i
       /\ runtime_soa.prototype_id[j + 1] = runtime_soa.prototype_id[last.i + 1]
       /\ ~has_override(RT, j)
       /\ get(RT, j, runtime_soa.prototype_id[j + 1]) =
            [ret |-> "x", panic |-> FALSE]

\* C4 (Spec): overlay read-through.  On a runtime table derived from the
\* prototype table, get(i, p) for every instance i without an override, p
\* being its stored prototype id, returns the prototype table's template at
\* p.
C4_ReadThrough ==
  derived =>
    \A i \in 0..(Len(runtime_soa.prototype_id) - 1) :
      ~has_override(RT, i) =>
        LET p == runtime_soa.prototype_id[i + 1] IN
        /\ p < Len(PT.dense_data)
        /\ get(RT, i, p) = [ret |-> PT.dense_data[p + 1], panic |-> FALSE]

\* A read of an instance spawned from prototype 1 returned prototype 1's
\* template, which differs from prototype 0's.
C4_Witness ==
  /\ derived
  /\ last.op = "get" /\ ~last.panic
  /\ last.i < Len(runtime_soa.prototype_id)
  /\ ~has_override(RT, last.i)
  /\ runtime_soa.prototype_id[last.i + 1] = 1
  /\ Len(PT.dense_data) = 2
  /\ last.ret = PT.dense_data[2]
  /\ PT.dense_data[1] # PT.dense_data[2]

\* C5 (SpecOverlay): get(instance_id, prototype_id) panics whenever
\* instance_id >= instance_len, and whenever prototype_id is outside the
\* templates for an instance without an override.
C5_ReadBoundsFault ==
  [][\A p \in ColTemplateIndices :
       (/\ last'.op = "get"
        /\ ColRead(last'.i, p)
        /\ \/ last'.i >= col.instance_len
           \/ (~has_override(col, last'.i) /\ p >= Len(col.dense_data)))
         => last'.panic
    ]_vars

\* C6 (Spec): bounds faults on mutators.  get_mut and set with
\* i >= instance_len, get_mut on an instance without an override with p
\* outside the templates, swap_remove(k) with k >= the record count and
\* spawn_entity with p >= the prototype table's record count each panic and
\* leave both tables exactly as they were.
C6_MutatorBoundsFaults ==
  [][LET o == runtime_soa.really_long_string IN
     /\ (last'.op = "get_mut" /\ last'.i >= o.instance_len)
          => (last'.panic /\ TablesUnchanged)
     /\ \A p \in TemplateIndices, v \in NewVals :
          (/\ last'.op = "get_mut"
           /\ ~(last'.panic /\ TablesUnchanged)
           /\ ~has_override(o, last'.i)
           /\ p >= Len(o.dense_data))
            => ~Write(last'.i, p, v)
     /\ (last'.op = "set" /\ last'.i >= o.instance_len)
          => (last'.panic /\ TablesUnchanged)
     /\ (last'.op = "swap_remove"
         /\ last'.i >= Len(runtime_soa.prototype_id))
          => (last'.panic /\ TablesUnchanged)
     /\ (last'.op = "proto_swap_remove"
         /\ last'.i >= Len(prototype_soa.prototype_id))
          => (last'.panic /\ TablesUnchanged)
     /\ (last'.op = "spawn_entity"
         /\ last'.i >= Len(prototype_soa.prototype_id))
          => (last'.panic /\ TablesUnchanged)
    ]_vars

\* get_mut panicked on a live instance without an override because p is
\* outside the templates, in a table that holds another, overridden instance.
C6_Witness ==
  /\ last.op = "get_mut" /\ last.panic
  /\ last.i < RT.instance_len
  /\ ~has_override(RT, last.i)
  /\ \E j \in 0..(RT.instance_len - 1) : has_override(RT, j)

\* C7 (Spec): coordinator-level atomicity.  A spawn_entity or swap_remove
\* call that panics, on the runtime table or on the prototype table, has
\* changed no column of the table.
C7_CoordinatorAtomicity ==
  [][(last'.op \in {"spawn_entity", "swap_remove", "proto_swap_remove"}
      /\ last'.panic) => TablesUnchanged]_vars

\* C8 (Spec): append-only prototype ids.  After N load_prototype calls and
\* nothing else on the prototype table, prototype_id = [0, .., N-1] whatever
\* the inputs carried, and every column holds N entries, so prototype_id[k]
\* = k indexes each column's template data.
C8_AppendOnlyIds ==
  last.op # "proto_swap_remove" =>
    LET n == Len(prototype_soa.prototype_id) IN
    /\ prototype_soa.prototype_id = [k \in 1..n |-> k - 1]
    /\ Len(prototype_soa.bar) = n
    /\ Len(prototype_soa.num) = n
    /\ Len(PT.dense_data) = n

\* Two prototypes are loaded, the second from an input carrying
\* "prototype_id": 7.
C8_Witness ==
  /\ last.op = "load_prototype" /\ ~last.panic
  /\ "prototype_id" \in DOMAIN ProtoInputs[last.i].fields
  /\ Len(prototype_soa.prototype_id) = 2

\* What each object input must produce: the decoded value of a field that is
\* present and decodable, the type default (Bar: 69, i32: 0, String: "")
\* otherwise.
ExpectedRecord ==
  << [bar |-> 69, num |-> 1337, really_long_string |-> "x"],
     [bar |-> 420, num |-> 0, really_long_string |-> ""],
     [bar |-> 420, num |-> 0, really_long_string |-> ""],
     [bar |-> 69, num |-> 1337, really_long_string |-> "x"] >>

\* C9 (Spec): default fallback.  Every load_prototype call whose input is
\* an object succeeds and appends exactly one entry to every column: for each
\* dense field and for the overlay field's templates the decoded input value
\* if the field is present and decodable and the type default otherwise, and
\* the next id to prototype_id.
C9_DefaultFallback ==
  [][(last'.op = "load_prototype" /\ last'.i \in DOMAIN ExpectedRecord) =>
       LET e == ExpectedRecord[last'.i] IN
       /\ ~last'.panic
       /\ prototype_soa'.bar = Append(prototype_soa.bar, e.bar)
       /\ prototype_soa'.num = Append(prototype_soa.num, e.num)
       /\ prototype_soa'.really_long_string =
            [prototype_soa.really_long_string EXCEPT
               !.dense_data = Append(@, e.really_long_string)]
       /\ Len(prototype_soa'.prototype_id) =
            Len(prototype_soa.prototype_id) + 1
    ]_vars

\* The second prototype was loaded from the input whose num and
\* really_long_string have the wrong JSON type.
C9_Witness ==
  /\ last.op = "load_prototype" /\ ~last.panic
  /\ last.i = 2
  /\ Len(prototype_soa.prototype_id) = 2
  /\ prototype_soa.num[2] = 0
  /\ PT.dense_data[2] = ""

\* An overlay column right after seeding from the prototype table's column.
Seeded(o) ==
  /\ o.instance_len = 0
  /\ DOMAIN o.sparse_data = {}
  /\ o.presence = << >>
  /\ o.dense_data = PT.dense_data

\* C10 (Spec): new_from_prototypes returns a table with zero records whose
\* overlay column has no instances, no overrides, an empty presence index
\* and the prototype table's templates; and init_from_prototypes applied to
\* the runtime column as it stands, instances and overrides included,
\* discards all of them likewise.
C10_DeriveIsEmpty ==
  /\ last.op = "new_from_prototypes" =>
       /\ runtime_soa.prototype_id = << >>
       /\ runtime_soa.bar = << >>
       /\ runtime_soa.num = << >>
       /\ Seeded(RT)
  /\ Seeded(Overlay_init_from_prototypes(RT, PT))

\* A runtime table was derived from a prototype table holding two different
\* templates.
C10_Witness ==
  /\ last.op = "new_from_prototypes"
  /\ Len(PT.dense_data) = 2
  /\ PT.dense_data[1] # PT.dense_data[2]
  /\ Len(prototype_soa.bar) = 2

\* What a successful spawn_entity(prototype_soa, p) step does to the columns
\* of the runtime table, reads left aside: one record is appended at
\* n = the old record count, carrying the prototype table's prototype_id[p]
\* and dense values at p; the overlay column gains one instance slot with
\* presence bit 0, its override mapping and templates untouched; the records
\* before n are as they were.
SpawnAppendsRecord ==
  LET p == last'.i
      n == Len(runtime_soa.prototype_id)
      old == runtime_soa.really_long_string
      new == runtime_soa'.really_long_string
  IN /\ runtime_soa'.prototype_id =
          Append(runtime_soa.prototype_id, prototype_soa.prototype_id[p + 1])
     /\ runtime_soa'.bar = Append(runtime_soa.bar, prototype_soa.bar[p + 1])
     /\ runtime_soa'.num = Append(runtime_soa.num, prototype_soa.num[p + 1])
     /\ new.instance_len = old.instance_len + 1
     /\ new.instance_len = n + 1
     /\ ~PresenceBit(new, n)
     /\ new.sparse_data = old.sparse_data
     /\ new.dense_data = old.dense_data
     /\ \A j \in 0..(n - 1) : Record(runtime_soa', j) = Record(runtime_soa, j)
     /\ prototype_soa' = prototype_soa

\* C11 as stated (SpecLate): every successful spawn_entity(prototype_soa, p)
\* appends the record described by SpawnAppendsRecord, and the new
\* instance's read value get(n, p) is the template at p.
C11_SpawnReadsTemplate ==
  [][(last'.op = "spawn_entity" /\ ~last'.panic) =>
       /\ SpawnAppendsRecord
       /\ get(runtime_soa'.really_long_string,
              Len(runtime_soa.prototype_id), last'.i)
            = [ret |-> PT.dense_data[last'.i + 1], panic |-> FALSE]
    ]_vars

\* C11 amended (SpecLate): every successful spawn_entity(prototype_soa, p)
\* appends the record described by SpawnAppendsRecord, and if p is within
\* the runtime column's templates (the prototypes loaded before derivation)
\* the new instance's read value get(n, p) is the template at p, the same in
\* both tables.
C11_SpawnReadsSnapshotTemplate ==
  [][(last'.op = "spawn_entity" /\ ~last'.panic) =>
       /\ SpawnAppendsRecord
       /\ last'.i < Len(RT.dense_data) =>
            /\ get(runtime_soa'.really_long_string,
                   Len(runtime_soa.prototype_id), last'.i)
                 = [ret |-> RT.dense_data[last'.i + 1], panic |-> FALSE]
            /\ RT.dense_data[last'.i + 1] = PT.dense_data[last'.i + 1]
    ]_vars

\* Spawning from prototypes 1, 1, 0 has produced the prototype_id column
\* [1, 1, 0]; instance 0 carries an override and the new instance reads
\* prototype 0's template.
C11_Witness ==
  /\ last.op = "spawn_entity" /\ ~last.panic /\ last.i = 0
  /\ runtime_soa.prototype_id = <<1, 1, 0>>
  /\ has_override(RT, 0)
  /\ get(RT, 2, 0) = [ret |-> "x", panic |-> FALSE]

\* The dense sequence of optional values an Overlay column stands for, from
\* instance id `from` on: entry i is the override of instance i, or Inherit
\* when its presence bit is 0.
Inherit == "<inherit>"
MissingEntry == "<missing>"

OverrideSeq(self, from) ==
  [k \in 1..(self.instance_len - from) |->
     IF PresenceBit(self, from + k - 1)
     THEN IF (from + k - 1) \in DOMAIN self.sparse_data
          THEN self.sparse_data[from + k - 1] ELSE MissingEntry
     ELSE Inherit]

\* The instances below `from` all inherit (no presence bit and no mapping
\* key lies below it), and every presence bit set for a live instance has
\* its mapping value.
InheritBelow(self, from) ==
  /\ \A key \in DOMAIN self.sparse_data : key >= from
  /\ \A w \in DOMAIN self.presence :
       \A b \in self.presence[w] :
         LET id == (w - 1) * 64 + b IN
         /\ id >= from
         /\ id < self.instance_len => id \in DOMAIN self.sparse_data

\* C12 (SpecOverlay): Overlay swap-remove mirrors the dense swap-remove.
\* Reading the column as a dense sequence of optional values (Inherit below
\* `window`, OverrideSeq from there on), every operation acts on it as the
\* corresponding dense operation: push_instance appends Inherit, set and a
\* store through get_mut replace entry i, get_mut alone fills an Inherit
\* entry i with a template, clear_override resets entry i, and
\* swap_remove_instance(k) is Vec::swap_remove(k), faulting exactly when it
\* does; a read, a faulting call and a clear_override out of range leave the
\* column as it is; no entry ever has its presence bit set without a mapping
\* value.
C12_RemoveMirrorsDense ==
  [][LET D == OverrideSeq(col, window)
         E == OverrideSeq(col', window')
         i == last'.i - window
         op == last'.op
     IN /\ col' # col => InheritBelow(col', window')
        /\ IF op = "swap_remove_instance"
             THEN LET r == Vec_swap_remove(D, i) IN
                  /\ last'.panic = r.panic
                  /\ ~r.panic => E = r.c
           ELSE IF last'.panic \/ op = "get" THEN col' = col
           ELSE IF op = "push_instance" THEN E = Append(D, Inherit)
           ELSE IF op \in {"set", "get_mut_store"}
             THEN \E v \in NewVals : E = [D EXCEPT ![i + 1] = v]
           ELSE IF op = "get_mut"
             THEN IF D[i + 1] = Inherit
                  THEN \E p \in 1..Len(col.dense_data) :
                         E = [D EXCEPT ![i + 1] = col.dense_data[p]]
                  ELSE col' = col
           ELSE IF op = "clear_override"
             THEN IF last'.i < col.instance_len
                  THEN E = [D EXCEPT ![i + 1] = Inherit]
                  ELSE col' = col
           ELSE IF op = "push_json" THEN E = D
           ELSE op = "init_from_prototypes" /\ E = << >>
    ]_vars

\* A swap-remove has moved the last instance's override "y" into the hole,
\* and the column still holds an instance that inherits.
C12_Witness ==
  /\ last.op = "swap_remove_instance" /\ ~last.panic
  /\ last.i < col.instance_len
  /\ OverrideSeq(col, window)[last.i - window + 1] = "y"
  /\ \E k \in DOMAIN OverrideSeq(col, window) :
       OverrideSeq(col, window)[k] = Inherit
  /\ (last.i \div 64) # (col.instance_len \div 64)

\* C13 (Spec): lockstep alignment.  On the derived runtime table, after every
\* successful call the prototype_id column, the dense columns and the overlay
\* column's instance_len have the same length; that length is 0 after
\* new_from_prototypes, one more after spawn_entity, one less after
\* swap_remove and unchanged by get, get_mut, set and clear_override, hence
\* always (number of spawns) - (number of despawns).
C13_LockstepAlignment ==
  [][(derived' /\ ~last'.panic) =>
       LET n == Len(runtime_soa.prototype_id)
           m == Len(runtime_soa'.prototype_id)
           op == last'.op
       IN /\ Len(runtime_soa'.bar) = m
          /\ Len(runtime_soa'.num) = m
          /\ runtime_soa'.really_long_string.instance_len = m
          /\ m = IF op = "new_from_prototypes" THEN 0
                 ELSE IF op = "spawn_entity" THEN n + 1
                 ELSE IF op = "swap_remove" THEN n - 1
                 ELSE n
    ]_vars

\* Three spawns and one despawn, with both remaining instances overridden:
\* every column holds two entries.
C13_Witness ==
  /\ last.op = "swap_remove" /\ ~last.panic
  /\ Len(runtime_soa.prototype_id) = 2
  /\ Len(runtime_soa.bar) = 2
  /\ RT.instance_len = 2
  /\ DOMAIN RT.sparse_data = {0, 1}

\* C14 (SpecLate): prototype/instance independence after derivation.  No
\* spawn_entity, swap_remove, get_mut (with its store), set or clear_override
\* on the runtime table changes the prototype table; no load_prototype on the
\* prototype table changes the runtime table; the runtime overlay column's
\* templates never change and stay a prefix of the prototype table's, so the
\* template of a prototype loaded after derivation cannot be read through the
\* runtime column: get with its id faults for every instance without an
\* override.
C14_IndependenceAfterDerivation ==
  [][LET op == last'.op
         new == runtime_soa'.really_long_string
         k == Len(new.dense_data)
     IN /\ op \in {"spawn_entity", "swap_remove", "get_mut", "set",
                   "clear_override"} => prototype_soa' = prototype_soa
        /\ op = "load_prototype" => runtime_soa' = runtime_soa
        /\ new.dense_data = RT.dense_data
        /\ k <= Len(prototype_soa'.really_long_string.dense_data)
        /\ new.dense_data =
             SubSeq(prototype_soa'.really_long_string.dense_data, 1, k)
        /\ (op = "load_prototype" /\ ~last'.panic) =>
             /\ Len(prototype_soa'.prototype_id) =
                  Len(prototype_soa.prototype_id) + 1
             /\ \A i \in 0..(new.instance_len - 1) :
                  ~has_override(new, i) =>
                    get(new, i, Len(prototype_soa.prototype_id)).panic
    ]_vars

\* A prototype was loaded after derivation while the runtime table held an
\* overridden instance and one that inherits: the prototype table has one
\* template more than the runtime column.
C14_Witness ==
  /\ last.op = "load_prototype" /\ ~last.panic
  /\ Len(PT.dense_data) = Len(RT.dense_data) + 1
  /\ RT.instance_len >= 2
  /\ \E i, j \in 0..(RT.instance_len - 1) :
       has_override(RT, i) /\ ~has_override(RT, j)

\* C15 (SpecOverlay): get_mut(i, p) with i < instance_len, no store made
\* through the reference.  If instance i had no override, afterwards
\* sparse_data holds at key i the template at p and presence bit i is 1,
\* nothing else of the column having changed; if it had one, the column is
\* left exactly as it was, whatever p is.  A second get_mut(i, p) right
\* after changes nothing more and does not fault, and get(i, p) returns
\* after the call what it returned before it.
C15_WriteWithoutMutation ==
  [][\A p \in ColTemplateIndices :
       (/\ last'.op = "get_mut" /\ ~last'.panic
        /\ ColGetMut(last'.i, p)) =>
         LET i == last'.i IN
         /\ i < col.instance_len
         /\ IF has_override(col, i)
              THEN col' = col
              ELSE /\ p < Len(col.dense_data)
                   /\ col'.sparse_data =
                        map_insert(col.sparse_data, i, col.dense_data[p + 1])
                   /\ PresenceBit(col', i)
                   /\ col'.dense_data = col.dense_data
                   /\ col'.instance_len = col.instance_len
         /\ get_mut(col', i, p).o = col'
         /\ ~get_mut(col', i, p).panic
         /\ get(col', i, p) = get(col, i, p)
    ]_vars

\* get_mut alone has copied the template "x" into the override of an
\* instance in the second presence word, next to an instance overridden
\* with "y".
C15_Witness ==
  /\ last.op = "get_mut" /\ ~last.panic
  /\ last.i >= 64 /\ last.i < col.instance_len
  /\ PresenceBit(col, last.i)
  /\ col.sparse_data[last.i] = "x"
  /\ \E j \in DOMAIN col.sparse_data : col.sparse_data[j] = "y"

\* Every instance other than i, from `window` on, has in `new` the override
\* state and the read values (for every prototype id) it has in `old`, and
\* the instances below `window` still inherit.
OthersUnchanged(old, new, i) ==
  /\ InheritBelow(new, window)
  /\ \A j \in window..(old.instance_len - 1) :
       j # i => /\ has_override(new, j) = has_override(old, j)
                /\ \A p \in Indices(Len(old.dense_data)) :
                     get(new, j, p) = get(old, j, p)

\* C16 (SpecOverlay): set(i, v) with i < instance_len stores v as the
\* override of instance i and sets presence bit i whether or not an override
\* existed: afterwards get(i, p) returns v for every p, also for p outside
\* the templates, and the other instances' override state and read values,
\* the templates and instance_len are unchanged.
C16_AssignOverrides ==
  [][\A v \in NewVals :
       (/\ last'.op = "set" /\ ~last'.panic
        /\ ColAssign(last'.i, v)) =>
         LET i == last'.i IN
         /\ i < col.instance_len
         /\ PresenceBit(col', i)
         /\ i \in DOMAIN col'.sparse_data
         /\ col'.sparse_data[i] = v
         /\ \A p \in ColTemplateIndices :
              get(col', i, p) = [ret |-> v, panic |-> FALSE]
         /\ OthersUnchanged(col, col', i)
         /\ col'.dense_data = col.dense_data
         /\ col'.instance_len = col.instance_len
    ]_vars

\* set has replaced an override in a column without any template, so that
\* every prototype id is out of range, next to an instance that inherits.
C16_Witness ==
  /\ last.op = "set" /\ ~last.panic
  /\ col.dense_data = << >>
  /\ last.i < col.instance_len
  /\ get(col, last.i, 0) = [ret |-> "y", panic |-> FALSE]
  /\ \E j \in window..(col.instance_len - 1) : ~has_override(col, j)

\* C17 (SpecOverlay): clear_override(i) never faults.  With
\* i < instance_len it leaves instance i without a sparse_data entry and with
\* presence bit 0, so that get(i, p) returns the template at p, and changes
\* no other instance's override state or read values, nor the templates, nor
\* instance_len; with i >= instance_len it changes nothing.  A second
\* clear_override(i) changes nothing more.
C17_ClearOverride ==
  [][last'.op = "clear_override" =>
       LET i == last'.i IN
       /\ ~last'.panic
       /\ IF i < col.instance_len
            THEN /\ ~PresenceBit(col', i)
                 /\ i \notin DOMAIN col'.sparse_data
                 /\ \A p \in 0..(Len(col.dense_data) - 1) :
                      get(col', i, p) =
                        [ret |-> col.dense_data[p + 1], panic |-> FALSE]
                 /\ OthersUnchanged(col, col', i)
                 /\ col'.dense_data = col.dense_data
                 /\ col'.instance_len = col.instance_len
            ELSE col' = col
       /\ clear_override(col', i) = col'
    ]_vars

\* clear_override has reverted an instance in the second presence word to
\* the template "x", while another instance keeps its override "y".
C17_Witness ==
  /\ last.op = "clear_override"
  /\ last.i >= 64 /\ last.i < col.instance_len
  /\ ~has_override(col, last.i)
  /\ get(col, last.i, 0) = [ret |-> "x", panic |-> FALSE]
  /\ \E j \in DOMAIN col.sparse_data : col.sparse_data[j] = "y"

\* C18 (SpecOverlay): template immutability under instance operations.
\* push_instance, get, get_mut (with or without a store), set,
\* clear_override and swap_remove_instance, faulting or not, leave dense_data
\* exactly as it was; push_json appends one element to it; and
\* init_from_prototypes replaces it with the source column's.
C18_TemplateImmutability ==
  [][LET op == last'.op
         n == Len(col.dense_data)
     IN IF op = "push_json"
        THEN /\ Len(col'.dense_data) = n + 1
             /\ SubSeq(col'.dense_data, 1, n) = col.dense_data
        ELSE IF op = "init_from_prototypes"
        THEN \E t \in SeedSources : Seed(t) /\ col'.dense_data = t
        ELSE /\ op \in {"push_instance", "get", "get_mut", "get_mut_store",
                        "set", "clear_override", "swap_remove_instance"}
             /\ col'.dense_data = col.dense_data
    ]_vars

\* A swap-remove across the presence word boundary has moved an override
\* while the two templates are still in place.
C18_Witness ==
  /\ last.op = "swap_remove_instance" /\ ~last.panic
  /\ col.dense_data = <<"", "x">>
  /\ last.i < 64 /\ col.instance_len >= 64
  /\ last.i \in DOMAIN col.sparse_data

\* C19 (SpecOverlay): no stale override state beyond the live range.  In
\* every state reached through the Overlay operations sparse_data has no key
\* >= instance_len and no presence bit at a position >= instance_len is set;
\* and the slot push_instance has just added, reused or not, has no presence
\* bit and no sparse_data entry.
C19_NoStaleOverrides ==
  /\ \A key \in DOMAIN col.sparse_data : key < col.instance_len
  /\ \A w \in DOMAIN col.presence :
       \A b \in col.presence[w] : (w - 1) * 64 + b < col.instance_len
  /\ last.op = "push_instance" =>
       /\ col.instance_len = last.i + 1
       /\ ~PresenceBit(col, last.i)
       /\ last.i \notin DOMAIN col.sparse_data

\* A swap-remove has relocated the override of slot 64 into the first
\* presence word: the second word is still allocated, slot 64 is now beyond
\* the live range and free for reuse.
C19_Witness ==
  /\ last.op = "swap_remove_instance" /\ ~last.panic
  /\ col.instance_len = 64
  /\ Len(col.presence) = 2
  /\ has_override(col, last.i)

\* C20 (Spec): reads of live instances never fault.  On a runtime table
\* derived from a prototype table that is not loaded into afterwards, in
\* every state reached by spawn_entity, swap_remove, get_mut, set and
\* clear_override every stored prototype_id[i] is within the overlay
\* column's templates, and get(i, prototype_id[i]) and
\* get_mut(i, prototype_id[i]) succeed for every live instance i.
C20_LiveReadsNeverFault ==
  derived =>
    \A i \in 0..(Len(runtime_soa.prototype_id) - 1) :
      LET p == runtime_soa.prototype_id[i + 1] IN
      /\ p < Len(RT.dense_data)
      /\ i < RT.instance_len
      /\ ~get(RT, i, p).panic
      /\ ~get_mut(RT, i, p).panic

\* A read of an overridden instance of prototype 1 returned the override,
\* in a table that also holds an instance of prototype 0.
C20_Witness ==
  /\ derived
  /\ last.op = "get" /\ ~last.panic
  /\ last.ret = "y"
  /\ runtime_soa.prototype_id[last.i + 1] = 1
  /\ \E j \in 1..Len(runtime_soa.prototype_id) :
       runtime_soa.prototype_id[j] = 0

====
